---- MODULE Spec2Model ----
(***************************************************************************)
(* The credential gateway of junctionfs-auth, in its two variants:         *)
(*   - src/index.js         Credential Collections kept in the user's      *)
(*                          identity-provider metadata (one field,         *)
(*                          rewritten whole on every mutation);            *)
(*   - src/unnamed/part_000 Credential Records kept as independent entries *)
(*                          of a key-value cache.                          *)
(* Every asynchronous function is cut at its awaits: one action is the     *)
(* completion of the awaited external call together with the code that     *)
(* runs until the next await.                                              *)
(*                                                                         *)
(* Strings are sequences of tokens, so that concatenation, startsWith,     *)
(* indexOf, lastIndexOf and substring are computed as the code computes    *)
(* them.  No token other than "_" contains an underscore and no token is a *)
(* prefix of another.                                                      *)
(***************************************************************************)
EXTENDS Integers, Sequences, FiniteSets, TLC

\* Number of requests / calls the model follows (slot i is the i-th arrival).
MaxOps == 2

Slots == 1..MaxOps

----------------------------------------------------------------------------
\* Strings

SEP == "_"

\* String(undefined): what `undefined + '_'` and startsWith(undefined) use.
UNDEF == <<"undefined">>

\* The placeholder identity announced upstream when there is no user id.
Placeholder == <<"My-username">>

\* Two user ids, one a string prefix of the other.
U1 == <<"a">>
U2 == <<"a", "b">>
Users == {U1, U2}

\* The fixed service name and type of the sign-in interceptor.
GoogleDriveName == <<"Google Drive">>
GoogleDriveType == <<"GoogleDrive">>

\* Names and types a client may send.  AltType and AltName contain the
\* separator: GoogleDriveName_AltType and AltName_GoogleDriveType are the same
\* string.
AltType == <<"v2", SEP, "GoogleDrive">>
AltName == <<"Google Drive", SEP, "v2">>
NameTypes == { <<GoogleDriveName, GoogleDriveType>>,
               <<GoogleDriveName, AltType>>,
               <<AltName, GoogleDriveType>> }
Names == { nt[1] : nt \in NameTypes }

\* Opaque credential payloads (token responses).
Datas == {"d1", "d2"}

startsWith(x, prefix) ==
    /\ Len(prefix) <= Len(x)
    /\ SubSeq(x, 1, Len(prefix)) = prefix

\* String.prototype.indexOf / lastIndexOf of a one-character string: 0-based,
\* -1 when absent.
indexOf(x, c) ==
    IF \E i \in 1..Len(x) : x[i] = c
    THEN (CHOOSE i \in 1..Len(x) : x[i] = c /\ \A j \in 1..(i-1) : x[j] # c) - 1
    ELSE -1

lastIndexOf(x, c) ==
    IF \E i \in 1..Len(x) : x[i] = c
    THEN (CHOOSE i \in 1..Len(x) : x[i] = c /\ \A j \in (i+1)..Len(x) : x[j] # c) - 1
    ELSE -1

Clamp(i, n) == IF i < 0 THEN 0 ELSE IF i > n THEN n ELSE i

\* String.prototype.substring(start, end): arguments clamped to [0, length]
\* and swapped when start > end; 0-based, end exclusive.
substring(x, start, end) ==
    LET s == Clamp(start, Len(x))
        e == Clamp(end, Len(x))
        lo == IF s <= e THEN s ELSE e
        hi == IF s <= e THEN e ELSE s
    IN  SubSeq(x, lo + 1, hi)

\* userId + '_' + name + '_' + type
connectionName(userId, name, type) ==
    userId \o <<SEP>> \o name \o <<SEP>> \o type

\* JSON text of a value, and its parse.
JSONstringify(v) == [json |-> v]
JSONparse(s) == s.json

----------------------------------------------------------------------------
\* The value of metadata.services: undefined, a number, or an array of
\* records {name, type, data}.

SVUndef == [k |-> "undef", n |-> 0, v |-> <<>>]
SVNum(n) == [k |-> "num", n |-> n, v |-> <<>>]
SVArr(s) == [k |-> "arr", n |-> 0, v |-> s]

\* The numbers a collection was seen overwritten with (a length).
CorruptScalars == { SVNum(1) }

\* JavaScript truthiness of a services value.
Truthy(sv) ==
    CASE sv.k = "undef" -> FALSE
      [] sv.k = "num"   -> sv.n # 0
      [] OTHER          -> TRUE

\* services?.length, as a number; 0 stands for 0 and for undefined (both falsy).
LengthOf(sv) == IF sv.k = "arr" THEN Len(sv.v) ELSE 0

\* services.findIndex(x => x.name == name), 1-based; 0 for -1.
findIndex(s, name) ==
    IF \E i \in 1..Len(s) : s[i].name = name
    THEN CHOOSE i \in 1..Len(s) : s[i].name = name /\ \A j \in 1..(i-1) : s[j].name # name
    ELSE 0

RECURSIVE SetToSeq(_)
\* The keys of the cache in the order the server enumerates them.
SetToSeq(S) ==
    IF S = {} THEN <<>>
    ELSE LET x == CHOOSE y \in S : TRUE IN <<x>> \o SetToSeq(S \ {x})

RECURSIVE filter(_, _)
filter(s, userId) ==
    IF s = <<>> THEN <<>>
    ELSE IF startsWith(Head(s), userId)
         THEN <<Head(s)>> \o filter(Tail(s), userId)
         ELSE filter(Tail(s), userId)

----------------------------------------------------------------------------
VARIABLES
    backend,          \* "metadata" (src/index.js) or "cache" (part_000)
    sessionRequired,  \* process.env.DISABLE_AUTH !== "true"
    metadata,         \* metadata variant: user id -> value of metadata.services
    pendingRepair,    \* metadata variant: user id -> un-awaited { services: [] } writes in flight
    cache,            \* cache variant: key -> stored JSON text
    procs             \* slot -> the request or call in that slot

vars == <<backend, sessionRequired, metadata, pendingRepair, cache, procs>>

NoBody == [k |-> "none", v |-> <<>>]

\* A slot no request has taken yet.
Idle == [kind |-> "idle", method |-> "", pc |-> "idle", sess |-> FALSE, user |-> UNDEF,
         name |-> <<>>, type |-> <<>>, data |-> "",
         services |-> SVUndef, phase |-> 1, existing |-> FALSE,
         status |-> "", body |-> NoBody, result |-> "",
         fwdUser |-> <<>>, fwdCreds |-> JSONstringify(""),
         reads |-> 0, writes |-> 0]

\* Records registered before the process started (the store outlives it).
PriorRecords ==
    << [name |-> GoogleDriveName, type |-> GoogleDriveType, data |-> "d1"],
       [name |-> AltName, type |-> GoogleDriveType, data |-> "d2"] >>

\* The stores at start: nothing written yet, U1's collection holding the prior
\* records, or (metadata variant) U1's collection overwritten with a number.
InitialMetadata ==
    { [u \in Users |-> IF u = U1 THEN c ELSE SVUndef] :
        c \in {SVUndef, SVArr(PriorRecords)} \cup CorruptScalars }

InitialCache ==
    { << >>,
      [key \in { connectionName(U1, PriorRecords[i].name, PriorRecords[i].type) :
                   i \in 1..Len(PriorRecords) } |->
          LET i == CHOOSE j \in 1..Len(PriorRecords) :
                     key = connectionName(U1, PriorRecords[j].name, PriorRecords[j].type)
          IN  JSONstringify([name |-> PriorRecords[i].name, data |-> PriorRecords[i].data])] }

Init ==
    /\ backend \in {"metadata", "cache"}
    /\ sessionRequired \in BOOLEAN
    /\ metadata \in IF backend = "metadata" THEN InitialMetadata
                    ELSE { [u \in Users |-> SVUndef] }
    /\ pendingRepair = [u \in Users |-> 0]
    /\ cache \in IF backend = "cache" THEN InitialCache ELSE { << >> }
    /\ procs = [p \in Slots |-> Idle]

----------------------------------------------------------------------------
\* What every step leaves alone.

Config == <<backend, sessionRequired>>

Fresh(p) ==
    /\ procs[p].kind = "idle"
    /\ \A q \in 1..(p-1) : procs[q].kind # "idle"

\* A gate that lets every request through.
verifySession_Open(s) == TRUE

\* verifySession({sessionRequired}): the route handler runs when a valid
\* session came with the request, or when no session is required.
verifySession(s) == (s \in Users) \/ ~sessionRequired

\* The request as the session gate hands it on; req.session?.getUserId() is
\* undefined without a session.
Arrive(kind, s, name, type, data) ==
    [Idle EXCEPT !.kind = kind, !.sess = (s \in Users), !.user = s,
                 !.name = name, !.type = type, !.data = data]

\* The gate short-circuits with an unauthorized response.
Unauthorised(pr) == [pr EXCEPT !.pc = "done", !.status = "401"]

\* A rejection no handler catches: the request is left unanswered, or the
\* framework's error middleware (lines 240-245) answers 500 where the
\* framework forwards rejected handlers to it.
UnhandledOutcomes == {"none", "500"}

Unhandled(pr, st) == [pr EXCEPT !.pc = "done", !.status = st, !.result = "threw"]

\* catch (err) { console.error(err); res.status(500).end() }
Caught(pr) == [pr EXCEPT !.pc = "done", !.status = "500", !.result = "caught"]

\* A call of a store function that rejects.
Threw(pr, why) == [pr EXCEPT !.pc = "done", !.result = why]

----------------------------------------------------------------------------
\* src/index.js: the metadata-backed store functions

\* getServices, at the completion of one of its two getUserMetadata calls.
\*   "throw"  : the call rejected (no user id to ask for)
\*   "repair" : the first read saw a number: the reset is issued, not awaited,
\*              and the metadata is read again
\*   "return" : metadata.services of this read is returned
getServices(pr) ==
    IF pr.user \notin Users
    THEN [out |-> "throw", val |-> SVUndef]
    ELSE IF pr.phase = 1 /\ metadata[pr.user].k = "num"
         THEN [out |-> "repair", val |-> SVUndef]
         ELSE [out |-> "return", val |-> metadata[pr.user]]

NoRecord == [name |-> <<>>, type |-> <<>>, data |-> ""]

\* getServiceData after its getServices call completed with g:
\* null when services is falsy, else services.find(x => x.name == name).
getServiceData(g, name) ==
    IF g.out = "throw"
    THEN [out |-> "throw", found |-> FALSE, rec |-> NoRecord]
    ELSE IF ~Truthy(g.val)
    THEN [out |-> "return", found |-> FALSE, rec |-> NoRecord]
    ELSE IF g.val.k # "arr"
    THEN [out |-> "throw", found |-> FALSE, rec |-> NoRecord]
    ELSE LET i == findIndex(g.val.v, name) IN
         IF i = 0
         THEN [out |-> "return", found |-> FALSE, rec |-> NoRecord]
         ELSE [out |-> "return", found |-> TRUE, rec |-> g.val.v[i]]

\* The bookkeeping of one completed store read.
DidRead(pr) == [pr EXCEPT !.reads = @ + 1, !.phase = 1]

\* A step of process p at an awaited getUserMetadata: either the repair write
\* is issued and the read repeated, or the caller continues with K.
MetaRead(p, label, K(_, _, _)) ==
    /\ backend = "metadata"
    /\ procs[p].pc = label
    /\ LET pr == procs[p]
           g  == getServices(pr)
       IN  IF g.out = "repair"
           THEN /\ procs' = [procs EXCEPT ![p].phase = 2, ![p].reads = @ + 1,
                                          ![p].writes = @ + 1]
                /\ pendingRepair' = [pendingRepair EXCEPT ![pr.user] = @ + 1]
           ELSE /\ \E st \in UnhandledOutcomes :
                       procs' = [procs EXCEPT ![p] = K(DidRead(pr), g, st)]
                /\ UNCHANGED pendingRepair
    /\ UNCHANGED <<Config, metadata, cache>>

\* UserMetadata.updateUserMetadata(userId, { services: [] }) of getServices
\* reaches the store.
RepairLands(u) ==
    /\ pendingRepair[u] > 0
    /\ pendingRepair' = [pendingRepair EXCEPT ![u] = @ - 1]
    /\ metadata' = [metadata EXCEPT ![u] = SVArr(<<>>)]
    /\ UNCHANGED <<Config, cache, procs>>

\* The end of a store function that resolved: a direct call is over, the
\* sign-in interceptor returns the response of the wrapped completion.
Resolved(pr, what) ==
    [pr EXCEPT !.pc = "done", !.result = what,
               !.status = IF pr.kind = "signin" THEN "OK" ELSE pr.status]

\* The end of a store function that rejected.
Rejected(pr, why) == Threw(pr, why)

\* addService, line 168: services = await getServices(userId); then the
\* getServices call of getServiceData starts.
addService168(pr, g, st) ==
    IF g.out = "throw"
    THEN Rejected(pr, "threw")
    ELSE [pr EXCEPT !.services = g.val, !.pc = "addService.getServiceData"]

\* services.push({name, type, data}) on the collection read at line 168,
\* replaced by [] when it has no length.
pushed(services, name, type, data) ==
    (IF LengthOf(services) = 0 THEN <<>> ELSE services.v)
        \o << [name |-> name, type |-> type, data |-> data] >>

\* addService, lines 170-182: the conflict check on a second read, the push on
\* the collection of the first read, and the whole-collection write issued.
addService170(pr, g, st) ==
    LET existingService == getServiceData(g, pr.name) IN
    IF existingService.out = "throw"
    THEN Rejected(pr, "threw")
    ELSE IF existingService.found
    THEN Rejected(pr, "conflict")
    ELSE [pr EXCEPT !.services = SVArr(pushed(pr.services, pr.name, pr.type, pr.data)),
                    !.writes = @ + 1,
                    !.pc = "addService.update"]

\* The data written to the first record whatever the index.
withData_FirstRecord(s, i, data) == [s EXCEPT ![1].data = data]

\* services[serviceIndex].data = data
withData(s, i, data) == [s EXCEPT ![i].data = data]

\* An update that appends the record when the name is missing.
editService187_Upsert(pr, g, st) ==
    IF g.out = "throw"
    THEN Rejected(pr, "threw")
    ELSE LET s == IF g.val.k = "arr" THEN g.val.v ELSE <<>>
             serviceIndex == findIndex(s, pr.name)
         IN  [pr EXCEPT !.services =
                          SVArr(IF serviceIndex = 0
                                THEN s \o << [name |-> pr.name, type |-> pr.type, data |-> pr.data] >>
                                ELSE withData(s, serviceIndex, pr.data)),
                        !.writes = @ + 1,
                        !.pc = "editService.update"]

\* editService, lines 187-190: findIndex on the collection read; a collection
\* that is no array, or an index of -1, is a TypeError.
editService187(pr, g, st) ==
    IF g.out = "throw" \/ g.val.k # "arr"
    THEN Rejected(pr, "threw")
    ELSE LET serviceIndex == findIndex(g.val.v, pr.name) IN
         IF serviceIndex = 0
         THEN Rejected(pr, "threw")
         ELSE [pr EXCEPT !.services = SVArr(withData(g.val.v, serviceIndex, pr.data)),
                         !.writes = @ + 1,
                         !.pc = "editService.update"]

\* await UserMetadata.updateUserMetadata(userId, { services }) of addService
\* (line 182) or editService (line 190) reaches the store and resolves.
updateUserMetadata(p, label) ==
    /\ backend = "metadata"
    /\ procs[p].pc = label
    /\ metadata' = [metadata EXCEPT ![procs[p].user] = procs[p].services]
    /\ procs' = [procs EXCEPT ![p] = Resolved(procs[p], "ok")]
    /\ UNCHANGED <<Config, pendingRepair, cache>>

AddServiceRead1(p) == MetaRead(p, "addService.getServices", addService168)
AddServiceRead2(p) == MetaRead(p, "addService.getServiceData", addService170)
AddServiceWrite(p) == updateUserMetadata(p, "addService.update")
EditServiceRead(p) == MetaRead(p, "editService.getServices", editService187)
EditServiceWrite(p) == updateUserMetadata(p, "editService.update")

\* A direct call of getServiceData: the record, not-found, or a rejection.
getServiceDataReturns(pr, g, st) ==
    LET d == getServiceData(g, pr.name) IN
    IF d.out = "throw"
    THEN Rejected(pr, "threw")
    ELSE [pr EXCEPT !.pc = "done",
                    !.result = IF d.found THEN "found" ELSE "not-found",
                    !.data = d.rec.data, !.type = d.rec.type]

GetServiceDataRead(p) ==
    MetaRead(p, "getServiceData.getServices", getServiceDataReturns)

\* The store functions called with arbitrary arguments (the contract the
\* interceptor and the routes rely on).
AddServiceCall(p, u, nt, d) ==
    /\ backend = "metadata"
    /\ Fresh(p)
    /\ procs' = [procs EXCEPT ![p] =
                   [Arrive("addService", u, nt[1], nt[2], d)
                       EXCEPT !.pc = "addService.getServices"]]
    /\ UNCHANGED <<Config, metadata, pendingRepair, cache>>

EditServiceCall(p, u, n, d) ==
    /\ backend = "metadata"
    /\ Fresh(p)
    /\ procs' = [procs EXCEPT ![p] =
                   [Arrive("editService", u, n, <<>>, d)
                       EXCEPT !.pc = "editService.getServices"]]
    /\ UNCHANGED <<Config, metadata, pendingRepair, cache>>

GetServiceDataCall(p, u, n) ==
    /\ backend = "metadata"
    /\ Fresh(p)
    /\ procs' = [procs EXCEPT ![p] =
                   [Arrive("getServiceData", u, n, <<>>, "")
                       EXCEPT !.pc = "getServiceData.getServices"]]
    /\ UNCHANGED <<Config, metadata, pendingRepair, cache>>


----------------------------------------------------------------------------
\* src/index.js: the routes and the sign-in interceptor

Sessions == Users \cup {UNDEF}

\* services?.map(x => { return {name: x.name, type: x.type} })
servicesNames(s) == [i \in 1..Len(s) |-> [name |-> s[i].name, type |-> s[i].type]]

\* GET /api/*, lines 151-154: res.json of the projection; res.json(undefined)
\* when there is no collection; a TypeError nothing catches when services is
\* a number.
getApi151(pr, g, st) ==
    IF g.out = "throw" \/ g.val.k = "num"
    THEN Unhandled(pr, st)
    ELSE IF g.val.k = "undef"
    THEN [pr EXCEPT !.pc = "done", !.status = "200",
                    !.body = [k |-> "undefined", v |-> <<>>]]
    ELSE [pr EXCEPT !.pc = "done", !.status = "200",
                    !.body = [k |-> "json", v |-> servicesNames(g.val.v)]]

\* userId || "My-username"
authenticatedUser(userId) == IF userId = UNDEF THEN Placeholder ELSE userId

\* apiProxy.web(req, res, {target: jonctionfsUri}) with the two headers set.
Forwarded(pr, data) ==
    [pr EXCEPT !.pc = "done", !.status = "forwarded",
               !.fwdUser = authenticatedUser(pr.user),
               !.fwdCreds = JSONstringify(data)]

\* catch-all /api/*, lines 220-228: providerInfo.data of a missing record is a
\* TypeError, caught with every other failure.
allApi220(pr, g, st) ==
    LET providerInfo == getServiceData(g, pr.name) IN
    IF providerInfo.out = "throw" \/ ~providerInfo.found
    THEN Caught(pr)
    ELSE Forwarded(pr, providerInfo.rec.data)

\* thirdPartySignInUpPOST, lines 87-92: register when absent, update when present.
signIn87(pr, g, st) ==
    LET googleServiceData == getServiceData(g, GoogleDriveName) IN
    IF googleServiceData.out = "throw"
    THEN Rejected(pr, "threw")
    ELSE IF ~googleServiceData.found
    THEN [pr EXCEPT !.pc = "addService.getServices"]
    ELSE [pr EXCEPT !.pc = "editService.getServices"]

GetApiRead(p) == MetaRead(p, "get.getServices", getApi151)
AllApiRead(p) == MetaRead(p, "all.getServiceData", allApi220)
SignInRead(p) == MetaRead(p, "signin.getServiceData", signIn87)

----------------------------------------------------------------------------
\* src/unnamed/part_000: the cache-backed routes

\* client.set(key, text): the client sends its commands in the order they are
\* issued on one connection, so the write is in effect for every command
\* issued after it.
clientSet(key, text) ==
    [x \in (DOMAIN cache) \cup {key} |-> IF x = key THEN text ELSE cache[x]]

\* keys.filter(x => x.startsWith(userId)).map(x => ({id, type}))
RECURSIVE connections(_)
connections(keys) ==
    IF keys = <<>> THEN <<>>
    ELSE LET x == Head(keys)
             start == indexOf(x, SEP) + 1
             end == lastIndexOf(x, SEP)
         IN  << [id |-> substring(x, start, end),
                 type |-> substring(x, end + 1, Len(x))] >>
             \o connections(Tail(keys))

\* GET /api/*, lines 135-145: the response to KEYS * arrives.
getApi135(pr) ==
    LET keys == SetToSeq(DOMAIN cache) IN
    [DidRead(pr) EXCEPT
        !.pc = "done", !.status = "200",
        !.body = [k |-> "json", v |-> connections(filter(keys, pr.user))]]

GetApiKeys(p) ==
    /\ backend = "cache"
    /\ procs[p].pc = "get.keys"
    /\ procs' = [procs EXCEPT ![p] = getApi135(procs[p])]
    /\ UNCHANGED <<Config, metadata, pendingRepair, cache>>

\* PUT /api/*, line 153: client.get(connectionName) is answered.
putApi153(pr) ==
    [DidRead(pr) EXCEPT
        !.existing = connectionName(pr.user, pr.name, pr.type) \in DOMAIN cache,
        !.pc = "put.resume"]

PutApiGet(p) ==
    /\ backend = "cache"
    /\ procs[p].pc = "put.get"
    /\ procs' = [procs EXCEPT ![p] = putApi153(procs[p])]
    /\ UNCHANGED <<Config, metadata, pendingRepair, cache>>

\* PUT /api/*, lines 155-164: an existing entry ends the handler without a
\* response (a Response object is built and dropped, or its constructor is
\* undefined); else the entry is written and 201 sent.
putApi155(pr, st) ==
    IF pr.existing
    THEN [pr EXCEPT !.pc = "done", !.status = st, !.result = "conflict"]
    ELSE [pr EXCEPT !.pc = "done", !.status = "201", !.result = "ok", !.writes = @ + 1]

\* The cache once the handler of pr has resumed: client.set of lines 159-162,
\* unless the entry existed.
putApi159(pr) ==
    IF pr.existing
    THEN cache
    ELSE clientSet(connectionName(pr.user, pr.name, pr.type),
                   JSONstringify([name |-> pr.name, data |-> pr.data]))

PutApiResume(p) ==
    /\ backend = "cache"
    /\ procs[p].pc = "put.resume"
    /\ \E st \in UnhandledOutcomes :
          procs' = [procs EXCEPT ![p] = putApi155(procs[p], st)]
    /\ cache' = putApi159(procs[p])
    /\ UNCHANGED <<Config, metadata, pendingRepair>>

\* catch-all /api/*, lines 174-183: JSON.parse(null).data is a TypeError, caught.
allApi175(pr) ==
    LET key == connectionName(pr.user, pr.name, pr.type) IN
    IF key \notin DOMAIN cache
    THEN Caught(DidRead(pr))
    ELSE Forwarded(DidRead(pr), JSONparse(cache[key]).data)

AllApiGet(p) ==
    /\ backend = "cache"
    /\ procs[p].pc = "all.get"
    /\ procs' = [procs EXCEPT ![p] = allApi175(procs[p])]
    /\ UNCHANGED <<Config, metadata, pendingRepair, cache>>

----------------------------------------------------------------------------
\* Arrivals

\* The methods of the requests to /api/*.
Methods == {"GET", "PUT", "POST"}

\* The /api/* routes in the order they are registered: app.get (line 148),
\* app.put (line 157), app.all (line 214).
ApiRoutes ==
    << [method |-> "GET", handler |-> "get"],
       [method |-> "PUT", handler |-> "put"],
       [method |-> "ALL", handler |-> "all"] >>

\* A router that gives every request to the generic proxy.
route_ProxyFirst(m) == "all"

\* The handler a request of method m is given to: the first registered route
\* that matches it (no handler of these routes calls next()).
route(m) ==
    LET match(i) == ApiRoutes[i].method \in {m, "ALL"}
        first == CHOOSE i \in 1..Len(ApiRoutes) : match(i) /\ \A j \in 1..(i-1) : ~match(j)
    IN  ApiRoutes[first].handler

\* GET /api/* (index.js 148-149, part_000 133-135)
GetApi(p, s) ==
    /\ Fresh(p)
    /\ route("GET") = "get"
    /\ LET pr == [Arrive("get", s, <<>>, <<>>, "") EXCEPT !.method = "GET"] IN
       procs' = [procs EXCEPT ![p] =
                   IF ~verifySession(s) THEN Unauthorised(pr)
                   ELSE [pr EXCEPT !.pc = IF backend = "metadata"
                                          THEN "get.getServices" ELSE "get.keys"]]
    /\ UNCHANGED <<Config, metadata, pendingRepair, cache>>

\* PUT /api/* (index.js 157-165: `userId` is not defined in the handler, which
\* throws before addService is called; part_000 148-153)
PutApi(p, s, nt, d) ==
    /\ Fresh(p)
    /\ route("PUT") = "put"
    /\ LET pr == [Arrive("put", s, nt[1], nt[2], d) EXCEPT !.method = "PUT"] IN
       \E st \in UnhandledOutcomes :
         procs' = [procs EXCEPT ![p] =
                     IF ~verifySession(s) THEN Unauthorised(pr)
                     ELSE IF backend = "metadata" THEN Unhandled(pr, st)
                     ELSE [pr EXCEPT !.pc = "put.get"]]
    /\ UNCHANGED <<Config, metadata, pendingRepair, cache>>

\* every other method on /api/* (index.js 214-220, part_000 167-175), with
\* provider-id nt[1] and provider-type nt[2]
AllApi(p, s, nt) ==
    /\ Fresh(p)
    /\ \E m \in Methods :
          /\ route(m) = "all"
          /\ LET pr == [Arrive("all", s, nt[1], nt[2], "") EXCEPT !.method = m] IN
             procs' = [procs EXCEPT ![p] =
                         IF ~verifySession(s) THEN Unauthorised(pr)
                         ELSE [pr EXCEPT !.pc = IF backend = "metadata"
                                                THEN "all.getServiceData" ELSE "all.get"]]
    /\ UNCHANGED <<Config, metadata, pendingRepair, cache>>

\* thirdPartySignInUpPOST is called for user u, whose code exchange yields d.
SignIn(p, u, d) ==
    /\ Fresh(p)
    /\ procs' = [procs EXCEPT ![p] =
                   [Arrive("signin", u, GoogleDriveName, GoogleDriveType, d)
                       EXCEPT !.pc = "signin.original"]]
    /\ UNCHANGED <<Config, metadata, pendingRepair, cache>>

SignInOutcomes == {"OK", "NOT_OK", "throw"}

\* part_000, lines 91-93: client.set(response.user.id + '_Google Drive_GoogleDrive', ...)
signIn91(pr) ==
    clientSet(pr.user \o <<SEP>> \o GoogleDriveName \o <<SEP>> \o GoogleDriveType,
              JSONstringify([data |-> pr.data]))

\* part_000, line 95: return response, the write issued and not awaited.
signInReturn(pr) ==
    [pr EXCEPT !.pc = "done", !.status = "OK", !.result = "ok", !.writes = @ + 1]

\* originalImplementation.thirdPartySignInUpPOST(input) settles (index.js
\* 79-94, part_000 83-95).  A rejection is logged and `response` stays
\* undefined, so response.status throws.
SignInReturns(p, out) ==
    /\ procs[p].pc = "signin.original"
    /\ LET pr == procs[p] IN
       CASE out = "throw" ->
              /\ procs' = [procs EXCEPT ![p] = Rejected(pr, "threw")]
              /\ UNCHANGED cache
         [] out = "NOT_OK" ->
              /\ procs' = [procs EXCEPT ![p] =
                             [pr EXCEPT !.pc = "done", !.status = "NOT_OK",
                                        !.result = "returned"]]
              /\ UNCHANGED cache
         [] out = "OK" /\ backend = "metadata" ->
              /\ procs' = [procs EXCEPT ![p].pc = "signin.getServiceData"]
              /\ UNCHANGED cache
         [] out = "OK" /\ backend = "cache" ->
              /\ cache' = signIn91(pr)
              /\ procs' = [procs EXCEPT ![p] = signInReturn(pr)]
    /\ UNCHANGED <<Config, metadata, pendingRepair>>

----------------------------------------------------------------------------
Arrival ==
    \/ \E p \in Slots, s \in Sessions : GetApi(p, s)
    \/ \E p \in Slots, s \in Sessions, nt \in NameTypes, d \in Datas : PutApi(p, s, nt, d)
    \/ \E p \in Slots, s \in Sessions, nt \in NameTypes : AllApi(p, s, nt)
    \/ \E p \in Slots, u \in Users, d \in Datas : SignIn(p, u, d)
    \/ \E p \in Slots, u \in Users, nt \in NameTypes, d \in Datas : AddServiceCall(p, u, nt, d)
    \/ \E p \in Slots, u \in Users, n \in Names, d \in Datas : EditServiceCall(p, u, n, d)
    \/ \E p \in Slots, u \in Users, n \in Names : GetServiceDataCall(p, u, n)

Step ==
    \/ \E p \in Slots : GetApiRead(p)
    \/ \E p \in Slots : AllApiRead(p)
    \/ \E p \in Slots : SignInRead(p)
    \/ \E p \in Slots, out \in SignInOutcomes : SignInReturns(p, out)
    \/ \E p \in Slots : AddServiceRead1(p)
    \/ \E p \in Slots : AddServiceRead2(p)
    \/ \E p \in Slots : AddServiceWrite(p)
    \/ \E p \in Slots : EditServiceRead(p)
    \/ \E p \in Slots : EditServiceWrite(p)
    \/ \E p \in Slots : GetServiceDataRead(p)
    \/ \E u \in Users : RepairLands(u)
    \/ \E p \in Slots : GetApiKeys(p)
    \/ \E p \in Slots : PutApiGet(p)
    \/ \E p \in Slots : PutApiResume(p)
    \/ \E p \in Slots : AllApiGet(p)

Next == Arrival \/ Step

\* Requests handled concurrently, suspended only at their awaits.
Spec == Init /\ [][Next]_vars

\* No request, call or store write is in flight.
Quiet ==
    /\ \A p \in Slots : procs[p].pc \in {"idle", "done"}
    /\ \A u \in Users : pendingRepair[u] = 0

\* One request or call at a time: the next arrives when the last is over.
NextSeq == (Quiet /\ Arrival) \/ Step

SpecSeq == Init /\ [][NextSeq]_vars

----------------------------------------------------------------------------
\* Observations the properties are stated with

\* The Credential Collection of u in the metadata variant.
MetaRecords(u) ==
    IF u \in Users /\ metadata[u].k = "arr" THEN metadata[u].v ELSE <<>>

\* The name a cache entry was registered under: the name of the PUT body, or
\* the interceptor's fixed name.
EntryName(key) ==
    IF "name" \in DOMAIN JSONparse(cache[key])
    THEN JSONparse(cache[key]).name
    ELSE GoogleDriveName

\* The cache entries that are records of u, and the type each was registered with.
CacheKeys(u) ==
    { key \in DOMAIN cache : startsWith(key, u \o <<SEP>> \o EntryName(key) \o <<SEP>>) }

EntryType(u, key) == SubSeq(key, Len(u) + Len(EntryName(key)) + 3, Len(key))

\* The Credential Collection of u as a set of <<place, record>>: the place is
\* the index (metadata variant) or the key (cache variant).
Collection(u) ==
    IF backend = "metadata"
    THEN { <<i, MetaRecords(u)[i]>> : i \in 1..Len(MetaRecords(u)) }
    ELSE { <<key, [name |-> EntryName(key), type |-> EntryType(u, key),
                   data |-> JSONparse(cache[key]).data]>> : key \in CacheKeys(u) }

Named(u, n) == { e \in Collection(u) : e[2].name = n }

\* A request that passed the session gate with a valid session, or a call.
Completes(p) == procs[p].pc # "done" /\ procs'[p].pc = "done"

IsRegister(pr) == pr.kind \in {"put", "addService"} /\ pr.user \in Users /\ pr.status # "401"

Succeeded(pr) == IF pr.kind = "put" THEN pr.status = "201" ELSE pr.result = "ok"

\* The names a listing response carries.
ListedNames(body) ==
    IF body.k = "json"
    THEN { body.v[i].name : i \in { j \in 1..Len(body.v) : "name" \in DOMAIN body.v[j] } }
    ELSE {}

----------------------------------------------------------------------------
\* C1 (sequential register): with one request at a time, registering a name
\* that u does not have succeeds and leaves u with one record of that name;
\* registering a name that u has (with any type) does not succeed and changes
\* nothing; u never has two records of one name; and a listing for u carries
\* every name u has.
C1_Step ==
    \A p \in Slots, u \in Users, n \in Names :
        (Completes(p) /\ procs'[p].user = u /\ procs'[p].name \in {n, <<>>}) =>
            /\ (IsRegister(procs'[p]) /\ procs'[p].name = n) =>
                  IF Named(u, n) = {}
                  THEN Succeeded(procs'[p]) /\ Cardinality(Named(u, n)') = 1
                  ELSE ~Succeeded(procs'[p]) /\ Collection(u)' = Collection(u)
            /\ procs'[p].kind = "get" =>
                  (Named(u, n) # {} => n \in ListedNames(procs'[p].body))
            /\ \A v \in Users : Cardinality(Named(v, n)') <= 1

C1_SequentialRegister == [][C1_Step]_vars

\* C2 (concurrent register): of two registrations by one user of one name,
\* however they interleave, at most one succeeds, and when both are over the
\* user has exactly one record of that name.
C2_AtMostOneWins ==
    \A p, q \in Slots, u \in Users, n \in Names :
        ( /\ p < q
          /\ IsRegister(procs[p]) /\ IsRegister(procs[q])
          /\ procs[p].user = u /\ procs[q].user = u
          /\ procs[p].name = n /\ procs[q].name = n
          /\ procs[p].pc = "done" /\ procs[q].pc = "done" )
        => /\ ~(Succeeded(procs[p]) /\ Succeeded(procs[q]))
           /\ Cardinality(Named(u, n)) = 1

\* The {name, type} projection of a record of a collection.
Projection(e) == [name |-> e[2].name, type |-> e[2].type]

\* The elements of a sequence.
Range(s) == { s[i] : i \in 1..Len(s) }

\* C3 (listing): a GET /api/* of a user with a valid session answers 200 with
\* a JSON array holding exactly one {name, type} element per record of the
\* caller's collection, and nothing else.
C3_Step ==
    \A p \in Slots, u \in Users :
        (Completes(p) /\ procs'[p].kind = "get" /\ procs'[p].user = u) =>
            /\ procs'[p].status = "200"
            /\ procs'[p].body.k = "json"
            /\ \A x \in { Projection(e) : e \in Collection(u) } \cup Range(procs'[p].body.v) :
                 Cardinality({ i \in 1..Len(procs'[p].body.v) : procs'[p].body.v[i] = x })
                   = Cardinality({ e \in Collection(u) : Projection(e) = x })

C3_ListingIsProjection == [][C3_Step]_vars

\* A record of u matches provider-id (and provider-type, where the variant
\* uses it).
Matches(u, id, type) ==
    { e \in Collection(u) : e[2].name = id /\ (backend = "cache" => e[2].type = type) }

\* C4 (proxy, no matching record): a catch-all request whose provider-id (and
\* provider-type) matches no record of the caller is answered 500 and not
\* forwarded.
C4_Step ==
    \A p \in Slots, u \in Sessions, nt \in NameTypes :
        ( /\ Completes(p) /\ procs'[p].kind = "all" /\ procs'[p].status # "401"
          /\ procs'[p].user = u /\ procs'[p].name = nt[1] /\ procs'[p].type = nt[2]
          /\ Matches(u, nt[1], nt[2]) = {} )
        => procs'[p].status = "500" /\ procs'[p].fwdUser = <<>>

C4_NoMatchNeverForwarded == [][C4_Step]_vars

Routes == {"get", "put", "all"}

\* C5 (session gate): with a session required, a /api/* request without a
\* valid session is answered 401 and has caused no store read, no store write
\* and no forward.
C5_GateBeforeHandler ==
    \A p \in Slots :
        (procs[p].kind \in Routes /\ ~procs[p].sess /\ sessionRequired) =>
            /\ procs[p].pc = "done"
            /\ procs[p].status = "401"
            /\ procs[p].reads = 0
            /\ procs[p].writes = 0
            /\ procs[p].fwdUser = <<>>

C5_Witness ==
    \E p \in Slots :
        /\ procs[p].kind = "all" /\ ~procs[p].sess /\ sessionRequired
        /\ procs[p].status = "401"
        /\ \E q \in Slots : procs[q].status = "forwarded"

\* C6 (injected headers): a forwarded request carries authenticated-user equal
\* to the caller's user id (the placeholder without a session) and
\* provider-credentials equal to the serialized data of a record of the
\* caller named provider-id, as stored.
C6_Step ==
    \A p \in Slots, u \in Sessions, n \in Names :
        ( /\ Completes(p) /\ procs'[p].status = "forwarded"
          /\ procs'[p].user = u /\ procs'[p].name = n )
        => /\ procs'[p].fwdUser = (IF u \in Users THEN u ELSE Placeholder)
           /\ \E e \in Named(u, n) : procs'[p].fwdCreds = JSONstringify(e[2].data)

C6_ForwardedHeaders == [][C6_Step]_vars

\* The write of an update reaches the store: editService's whole-collection
\* write, or the interceptor's client.set in the cache variant.
UpdateLands(p) ==
    \/ procs[p].pc = "editService.update" /\ procs'[p].pc = "done"
    \/ backend = "cache" /\ procs[p].pc = "signin.original" /\ procs'[p].result = "ok"

\* The record an update of (u, n) is about: the first record named n, in the
\* cache variant the one of the interceptor's type.
Updated(u, n) ==
    { e \in Named(u, n) :
        IF backend = "metadata" THEN e[1] = findIndex(MetaRecords(u), n)
        ELSE e[2].type = GoogleDriveType }

\* C7 (update, frame): with one request at a time, an update of the data of an
\* existing record of u changes the data of that record to the new data and
\* nothing else: its name, type and place, the other records of u and the
\* records of every other user are as before.
C7_Step ==
    \A p \in Slots, u \in Users, n \in Names, d \in Datas :
        ( /\ UpdateLands(p)
          /\ procs[p].user = u /\ procs[p].name = n /\ procs[p].data = d
          /\ Updated(u, n) # {} )
        => /\ \E e \in Updated(u, n) :
                Collection(u)' = (Collection(u) \ {e})
                                    \cup { <<e[1], [e[2] EXCEPT !.data = d]>> }
           /\ \A v \in Users \ {u} : Collection(v)' = Collection(v)

C7_UpdateChangesOnlyData == [][C7_Step]_vars

\* An update changed the data of the second of two records from "d2" to "d1".
C7_Witness ==
    \E p \in Slots :
        /\ procs[p].kind = "editService"
        /\ procs[p].result = "ok"
        /\ procs[p].name = AltName
        /\ metadata[U1] = SVArr(<< PriorRecords[1], [PriorRecords[2] EXCEPT !.data = "d1"] >>)

\* editService's read returns (it is not repeated after a repair).
EditReadReturns(p) ==
    /\ procs[p].pc = "editService.getServices"
    /\ procs'[p].pc # "editService.getServices"

\* C8 as claimed (update of a missing record): a call of updateServiceData
\* for a name u has no record of fails and has issued no store write at all.
C8_Original_Step ==
    \A p \in Slots, u \in Users, n \in Names :
        ( /\ EditReadReturns(p)
          /\ procs[p].user = u /\ procs[p].name = n
          /\ Named(u, n) = {} )
        => /\ procs'[p].pc = "done" /\ procs'[p].result = "threw"
           /\ procs[p].kind = "editService" => procs'[p].writes = 0
           /\ metadata' = metadata /\ cache' = cache

C8_Original_NoWriteAtAll == [][C8_Original_Step]_vars

\* C8 as amended: the call fails, issues no update write and creates or
\* changes no record; it has issued no store write at all unless its read
\* found a number in place of the collection, and then exactly one, the reset
\* getServices issues.
C8_Step ==
    \A p \in Slots, u \in Users, n \in Names :
        ( /\ EditReadReturns(p)
          /\ procs[p].user = u /\ procs[p].name = n
          /\ Named(u, n) = {} )
        => /\ procs'[p].pc = "done" /\ procs'[p].result = "threw"
           /\ procs'[p].writes = procs[p].writes
           /\ procs[p].kind = "editService" =>
                 procs'[p].writes = (IF procs[p].phase = 2 THEN 1 ELSE 0)
           /\ metadata' = metadata /\ cache' = cache

C8_MissingRecordOnlyRepairWrite == [][C8_Step]_vars

\* An update of a name the user's sequence does not hold failed without a write.
C8_Witness ==
    \E p \in Slots :
        /\ procs[p].kind = "editService"
        /\ procs[p].pc = "done" /\ procs[p].result = "threw"
        /\ procs[p].writes = 0 /\ procs[p].reads = 1
        /\ metadata[procs[p].user].k = "arr"
        /\ Len(metadata[procs[p].user].v) > 0
        /\ Named(procs[p].user, procs[p].name) = {}

\* u has no Credential Records and none was ever written.
NeverWritten(u) ==
    IF backend = "metadata" THEN metadata[u].k = "undef" ELSE CacheKeys(u) = {}

\* C9 (no records): for a user without records a listing answers 200 with an
\* empty JSON array, and a lookup returns not-found.
C9_Step ==
    \A p \in Slots, u \in Users :
        (Completes(p) /\ procs'[p].user = u /\ NeverWritten(u)) =>
            /\ procs'[p].kind = "get" =>
                  procs'[p].status = "200" /\ procs'[p].body = [k |-> "json", v |-> <<>>]
            /\ procs'[p].kind = "getServiceData" => procs'[p].result = "not-found"

C9_EmptyListing == [][C9_Step]_vars

\* C10 (repair): a read that found a number in place of the collection
\* returns an empty sequence to its caller, and the stored collection is an
\* empty sequence when the read completes, whichever of the repair write and
\* the re-read reaches the store first.
C10_Step ==
    \A p \in Slots, u \in Users :
        ( /\ Completes(p) /\ procs[p].phase = 2 /\ procs[p].user = u
          /\ procs[p].kind \in {"get", "getServiceData"}
          /\ \A q \in Slots \ {p} : procs[q].writes = 0 )
        => /\ procs[p].kind = "get" =>
                 procs'[p].status = "200" /\ procs'[p].body = [k |-> "json", v |-> <<>>]
           /\ procs[p].kind = "getServiceData" => procs'[p].result = "not-found"
           /\ metadata'[u] = SVArr(<<>>)

C10_RepairOnRead == [][C10_Step]_vars

----------------------------------------------------------------------------
\* The wrapped sign-in completion of p settles without an OK result.
SignInNotOK(p) ==
    /\ procs[p].pc = "signin.original"
    /\ procs'[p].pc = "done"
    /\ procs'[p].result # "ok"

\* The interceptor of p ends after an OK result of the wrapped completion.
SignInOKEnds(p) ==
    /\ procs[p].kind = "signin"
    /\ Completes(p)
    /\ ~SignInNotOK(p)

\* C11 (interceptor, one write): with one request at a time, a sign-in
\* completion with result OK ends having issued exactly one store write, after
\* which the user has a record "Google Drive" whose data is the token-exchange
\* response; a completion that throws or is not OK issues no store write.
C11_Step ==
    \A p \in Slots, u \in Users, d \in Datas :
        (procs[p].user = u /\ procs[p].data = d) =>
            /\ SignInNotOK(p) =>
                  /\ procs'[p].writes = 0
                  /\ metadata' = metadata /\ cache' = cache
                  /\ pendingRepair' = pendingRepair
            /\ SignInOKEnds(p) =>
                  /\ procs'[p].writes = 1
                  /\ \E e \in Named(u, GoogleDriveName)' : e[2].data = d

C11_ExactlyOneWrite == [][C11_Step]_vars

\* C12 (interceptor, result returned): whenever the wrapped sign-in
\* completion returned a result, the interceptor returns that result to its
\* caller, whatever becomes of the register or update that follows.
C12_Step ==
    \A p \in Slots :
        (procs[p].kind = "signin" /\ Completes(p)) =>
            /\ procs[p].pc # "signin.original" => procs'[p].status = "OK"
            /\ (procs[p].pc = "signin.original" /\ procs'[p].result # "threw") =>
                  procs'[p].status \in {"OK", "NOT_OK"}

C12_ResultReturned == [][C12_Step]_vars

\* C13 (PUT status codes): a PUT /api/* with a valid session is answered 201,
\* with the record stored, when the caller had no record of that name, and
\* with a 409 when the caller had one; it is never left unanswered.
C13_Step ==
    \A p \in Slots, u \in Users, n \in Names :
        ( /\ Completes(p) /\ procs'[p].kind = "put"
          /\ procs'[p].user = u /\ procs'[p].name = n )
        => IF Named(u, n) = {}
           THEN procs'[p].status = "201" /\ Named(u, n)' # {}
           ELSE procs'[p].status = "409"

C13_PutStatusCodes == [][C13_Step]_vars

----------------------------------------------------------------------------
\* The two variants side by side: one operation at a time is given to both,
\* every await answered at once; procs[1] is the outcome of src/index.js on
\* `metadata`, procs[2] the outcome of part_000 on `cache`.

InitBoth ==
    /\ backend = "both"
    /\ sessionRequired = TRUE
    /\ metadata = [u \in Users |-> SVUndef]
    /\ pendingRepair = [u \in Users |-> 0]
    /\ cache = << >>
    /\ procs = [p \in Slots |-> Idle]

\* addService run from its first read to the write it issues (or its rejection).
addServiceNow(pr, st) ==
    LET a == addService168(DidRead(pr), getServices(pr), st) IN
    IF a.pc = "done" THEN a
    ELSE addService170(DidRead(a), getServices(a), st)

\* The interceptor of src/index.js after an OK result, run to the write it
\* issues (or its rejection).
signInNow(pr, st) ==
    LET s == signIn87(DidRead(pr), getServices(pr), st) IN
    CASE s.pc = "addService.getServices"  -> addServiceNow(s, st)
      [] s.pc = "editService.getServices" -> editService187(DidRead(s), getServices(s), st)
      [] OTHER -> s

\* The awaited whole-collection write of pr, if it issued one, reaches the store.
landed(pr) ==
    IF pr.pc \in {"addService.update", "editService.update"}
    THEN Resolved(pr, "ok")
    ELSE pr

storeAfter(pr) ==
    IF pr.pc \in {"addService.update", "editService.update"}
    THEN [metadata EXCEPT ![pr.user] = pr.services]
    ELSE metadata

BothGet(u) ==
    /\ LET pr == Arrive("get", u, <<>>, <<>>, "") IN
       \E st \in UnhandledOutcomes :
          procs' = [procs EXCEPT ![1] = getApi151(DidRead(pr), getServices(pr), st),
                                 ![2] = getApi135(pr)]
    /\ UNCHANGED <<Config, metadata, pendingRepair, cache>>

BothPut(u, nt, d) ==
    /\ LET pr == Arrive("put", u, nt[1], nt[2], d) IN
       /\ \E st \in UnhandledOutcomes :
             procs' = [procs EXCEPT ![1] = Unhandled(pr, st),
                                    ![2] = putApi155(putApi153(pr), st)]
       /\ cache' = putApi159(putApi153(pr))
    /\ UNCHANGED <<Config, metadata, pendingRepair>>

\* registerService of each store: addService, and the PUT handler of part_000.
BothRegister(u, nt, d) ==
    /\ \E st \in UnhandledOutcomes :
          LET m == addServiceNow(Arrive("addService", u, nt[1], nt[2], d), st)
              c == Arrive("put", u, nt[1], nt[2], d)
          IN  /\ procs' = [procs EXCEPT ![1] = landed(m),
                                        ![2] = putApi155(putApi153(c), st)]
              /\ metadata' = storeAfter(m)
              /\ cache' = putApi159(putApi153(c))
    /\ UNCHANGED <<Config, pendingRepair>>

BothSignIn(u, d) ==
    /\ \E st \in UnhandledOutcomes :
          LET pr == Arrive("signin", u, GoogleDriveName, GoogleDriveType, d)
              m == signInNow(pr, st)
          IN  /\ procs' = [procs EXCEPT ![1] = landed(m), ![2] = signInReturn(pr)]
              /\ metadata' = storeAfter(m)
              /\ cache' = signIn91(pr)
    /\ UNCHANGED <<Config, pendingRepair>>

BothAll(u, nt) ==
    /\ LET pr == Arrive("all", u, nt[1], nt[2], "") IN
       \E st \in UnhandledOutcomes :
          procs' = [procs EXCEPT ![1] = allApi220(DidRead(pr), getServices(pr), st),
                                 ![2] = allApi175(pr)]
    /\ UNCHANGED <<Config, metadata, pendingRepair, cache>>

\* The user whose operations are given to both variants.
BothUsers == {U1}

NextBoth ==
    \/ \E u \in BothUsers : BothGet(u)
    \/ \E u \in BothUsers, nt \in NameTypes, d \in Datas : BothPut(u, nt, d)
    \/ \E u \in BothUsers, nt \in NameTypes, d \in Datas : BothRegister(u, nt, d)
    \/ \E u \in BothUsers, d \in Datas : BothSignIn(u, d)
    \/ \E u \in BothUsers, nt \in NameTypes : BothAll(u, nt)

SpecBoth == InitBoth /\ [][NextBoth]_vars

\* What the caller of an operation can see of its outcome.
Observed(pr) ==
    [ succeeded |-> CASE pr.kind \in {"put", "addService"} -> Succeeded(pr)
                      [] pr.kind = "signin" -> pr.status = "OK"
                      [] pr.kind = "get"    -> pr.status = "200"
                      [] pr.kind = "all"    -> pr.status = "forwarded"
                      [] OTHER -> TRUE,
      body     |-> pr.body,
      fwdUser  |-> pr.fwdUser,
      fwdCreds |-> pr.fwdCreds ]

\* C14 (the two stores are equivalent): given the same sequence of
\* operations, the metadata-backed and the cache-backed variant answer every
\* operation alike: the same success or failure, the same listing, the same
\* forwarded credentials.
C14_SameOutcomes == Observed(procs[1]) = Observed(procs[2])

\* A register of p completed successfully.
Registered(p) ==
    /\ procs[p].pc = "done"
    /\ IsRegister(procs[p])
    /\ Succeeded(procs[p])

\* C15 (records are never removed): in every state, the record of every
\* register that completed successfully is in its user's collection, under
\* its name and type.
C15_NeverRemoved ==
    \A p \in Slots :
        Registered(p) =>
            \E e \in Named(procs[p].user, procs[p].name) : e[2].type = procs[p].type

\* C16 (failures become 500): a /api/* request whose handler is over has been
\* answered, and with a 500 when the handler failed.
C16_FailuresAnswered500 ==
    \A p \in Slots :
        (procs[p].kind \in Routes /\ procs[p].pc = "done") =>
            /\ procs[p].status # "none"
            /\ procs[p].result \in {"threw", "caught", "conflict"} => procs[p].status = "500"

\* C17 (placeholder identity): with no session required, a request without a
\* session reads and writes the store under the placeholder identity it
\* announces upstream: the entry it registered, and the entry whose
\* credentials it forwarded, is the placeholder's.
C17_PlaceholderIdentity ==
    \A p \in Slots :
        ( /\ procs[p].kind \in Routes /\ procs[p].pc = "done"
          /\ ~procs[p].sess /\ ~sessionRequired )
        => /\ (procs[p].kind = "put" /\ procs[p].status = "201") =>
                 connectionName(Placeholder, procs[p].name, procs[p].type) \in DOMAIN cache
           /\ procs[p].status = "forwarded" =>
                 /\ procs[p].fwdUser = Placeholder
                 /\ connectionName(procs[p].fwdUser, procs[p].name, procs[p].type)
                       \in DOMAIN cache

\* C18 (route precedence): a GET request to /api/* is given to the listing
\* handler and a PUT request to the register handler, only a request of
\* another method reaches the generic proxy, and no GET or PUT request is
\* forwarded to the backend origin.
C18_RoutePrecedence ==
    \A p \in Slots :
        procs[p].kind \in Routes =>
            /\ procs[p].method = "GET" => procs[p].kind = "get"
            /\ procs[p].method = "PUT" => procs[p].kind = "put"
            /\ procs[p].kind = "all" => procs[p].method \notin {"GET", "PUT"}
            /\ procs[p].method \in {"GET", "PUT"} => procs[p].status # "forwarded"

\* A GET was answered with the listing of a user whose record a request of
\* another method was forwarded with.
C18_Witness ==
    \E p, q \in Slots :
        /\ procs[p].method = "GET" /\ procs[p].status = "200"
        /\ procs[q].method = "POST" /\ procs[q].status = "forwarded"
        /\ procs[p].user = procs[q].user

\* The listing u is owed: the one the handler computes from u's records alone.
OwnListing(u) ==
    IF backend = "metadata"
    THEN servicesNames(MetaRecords(u))
    ELSE connections(SetToSeq(CacheKeys(u)))

\* C19 (per-user isolation): a listing for u is made of u's records alone,
\* whatever the other users have registered; the credentials forwarded for u
\* are the data of a record of u; and a step changes the records of a user
\* only when it is a step of a request or call of that user, or the landing of
\* that user's own reset.
C19_Step ==
    /\ \A p \in Slots, u \in Users :
          (Completes(p) /\ procs'[p].user = u) =>
              /\ (procs'[p].kind = "get" /\ procs'[p].body.k = "json") =>
                    /\ Len(procs'[p].body.v) = Len(OwnListing(u))
                    /\ Range(procs'[p].body.v) = Range(OwnListing(u))
              /\ procs'[p].status = "forwarded" =>
                    \E e \in Collection(u) : procs'[p].fwdCreds = JSONstringify(e[2].data)
    /\ \A v \in Users :
          Collection(v)' # Collection(v) =>
              \/ \E p \in Slots : procs'[p] # procs[p] /\ procs'[p].user = v
              \/ pendingRepair'[v] < pendingRepair[v]

C19_Isolation == [][C19_Step]_vars

\* q has issued no whole-collection write of a register or update (it may
\* have issued resets).
NoUpdateWrite(q) ==
    /\ procs[q].result # "ok"
    /\ procs[q].pc \notin {"addService.update", "editService.update"}

\* C20 (the reset destroys no later data): once every reset in flight for a
\* user has landed, the record of a register of that user that completed
\* successfully is in the stored collection, whatever the order in which the
\* resets and the register's write reached the store (no other register or
\* update having written).
C20_ResetKeepsRegistered ==
    \A p \in Slots :
        ( /\ backend = "metadata"
          /\ Registered(p)
          /\ pendingRepair[procs[p].user] = 0
          /\ \A q \in Slots \ {p} : NoUpdateWrite(q) )
        => \E e \in Named(procs[p].user, procs[p].name) : e[2].type = procs[p].type

====
